---- MODULE Spec2Model ----
(***************************************************************************)
(* PodcastApp (src/script.js): the Podcast model, the filter / search /    *)
(* sort pipeline, the grid renderer, the detail modal and the event         *)
(* bindings, as a state machine.                                            *)
(*                                                                          *)
(* The text of a JavaScript string is a sequence of one-character strings; *)
(* the characters are those a string of this module can hold, U+0000 to    *)
(* U+00FF.  A JavaScript value carries its type (see "Values"), so that a  *)
(* string, an array, null and a number are told apart whatever they hold.  *)
(* A Podcast and the raw object it is made from are functions from the     *)
(* names of their properties to the values.  The Podcast instances and the *)
(* arrays of them live on a heap and are named by their index in it, so    *)
(* that identity, aliasing and in-place mutation are observable.  Times    *)
(* are milliseconds counted from 2025-01-15T00:00:00Z, the update date of  *)
(* the first sample record.                                                *)
(***************************************************************************)
EXTENDS Integers, Sequences, FiniteSets, TLC

VARIABLES
    dataset,          \* which dataset the literal at 66-155 spells out
    SAMPLE_PODCASTS,  \* the dataset array: references to its items, in order (66-155)
    now,              \* Date.now() (45)
    phase,            \* "load": bindings made, init() not yet run; "ready" (431)
    uncaught,         \* TRUE once a handler has ended with an uncaught TypeError
    genreValue,       \* genreFilter.value (389)
    genreHTML,        \* what was assigned to genreFilter.innerHTML (342)
    sortValue,        \* sortFilter.value (390, 426)
    searchValue,      \* searchInput.value (391)
    grid,             \* the children of #podcast-grid (188-247)
    modalShown,       \* modal.classList holds "show" (295, 306)
    ariaHidden,       \* modal's aria-hidden attribute (296, 307)
    modalInner,       \* what was assigned to modalInner.innerHTML (256, 308)
    keydownListeners, \* the keydown listeners of document, in order (299, 309, 412)
    focus,            \* document.activeElement (298)
    lastOpen,         \* history: the openModal the overlay shows; whether one was dismissed
    fnOrig,           \* a lone call of a function: the caller's array as first given
    fnList,           \* a lone call of a function: the caller's array now
    fnOut             \* a lone call of a function: the call and its result

appVars == <<dataset, SAMPLE_PODCASTS, now, phase, uncaught, genreValue, genreHTML,
             sortValue, searchValue, grid, modalShown, ariaHidden, modalInner,
             keydownListeners, focus, lastOpen>>
fnVars == <<fnOrig, fnList, fnOut>>
vars == <<appVars, fnVars>>

(***************************************************************************)
(* Bounds of the model.                                                     *)
(***************************************************************************)
MaxLen == 3    \* longest array handed to a pipeline function on its own
MaxDays == 15  \* the clock and the update times range over days 0..MaxDays

MsPerDay == 86400000

(***************************************************************************)
(* Strings.                                                                 *)
(***************************************************************************)
\* the letters of U+0000..U+00FF that have a lower case, and their lower case
UpperCase == <<"A", "B", "C", "D", "E", "F", "G", "H", "I", "J", "K", "L", "M", "N",
               "O", "P", "Q", "R", "S", "T", "U", "V", "W", "X", "Y", "Z", "À", "Á",
               "Â", "Ã", "Ä", "Å", "Æ", "Ç", "È", "É", "Ê", "Ë", "Ì", "Í", "Î", "Ï",
               "Ð", "Ñ", "Ò", "Ó", "Ô", "Õ", "Ö", "Ø", "Ù", "Ú", "Û", "Ü", "Ý", "Þ">>
LowerCase == <<"a", "b", "c", "d", "e", "f", "g", "h", "i", "j", "k", "l", "m", "n",
               "o", "p", "q", "r", "s", "t", "u", "v", "w", "x", "y", "z", "à", "á",
               "â", "ã", "ä", "å", "æ", "ç", "è", "é", "ê", "ë", "ì", "í", "î", "ï",
               "ð", "ñ", "ò", "ó", "ô", "õ", "ö", "ø", "ù", "ú", "û", "ü", "ý", "þ">>

Lower ==
    [c \in {UpperCase[i] : i \in 1..Len(UpperCase)} |->
        LowerCase[CHOOSE i \in 1..Len(UpperCase) : UpperCase[i] = c]]

\* String.prototype.toLowerCase, one character
toLowerChar(c) == IF c \in DOMAIN Lower THEN Lower[c] ELSE c

\* String.prototype.toLowerCase
toLowerCase(s) == [i \in 1..Len(s) |-> toLowerChar(s[i])]

\* WhiteSpace and LineTerminator of ECMAScript: tab, line feed, vertical tab,
\* form feed, carriage return, space, no-break space
IsWhiteSpace(c) == c \in {"\t", "\n", "", "\f", "\r", " ", " "}

\* String.prototype.trim: drops the white space at both ends
trim(s) ==
    LET keep == {i \in 1..Len(s) : ~IsWhiteSpace(s[i])}
    IN  IF keep = {} THEN <<>>
        ELSE LET lo == CHOOSE i \in keep : \A j \in keep : i <= j
                 hi == CHOOSE i \in keep : \A j \in keep : i >= j
             IN  SubSeq(s, lo, hi)

\* String.prototype.includes: q occurs in s as a contiguous substring
includes(s, q) ==
    \E k \in 0..(Len(s) - Len(q)) : \A j \in 1..Len(q) : s[k + j] = q[j]

RECURSIVE join(_, _)
\* Array.prototype.join
join(strs, sep) ==
    IF Len(strs) = 0 THEN <<>>
    ELSE IF Len(strs) = 1 THEN strs[1]
    ELSE strs[1] \o sep \o join(Tail(strs), sep)

\* membership in a sequence
arrayIncludes(arr, x) == \E i \in 1..Len(arr) : arr[i] = x

AllGenres == <<"A", "l", "l", " ", "G", "e", "n", "r", "e", "s">>

(***************************************************************************)
(* Values.  A value is a record that carries its type: a string with its   *)
(* text, a number (an integer), a boolean, null, undefined, an array with  *)
(* its elements (values again) and a plain object with its properties (a   *)
(* function from their names to values).  A date string is a string that   *)
(* carries, in place of its text, what Date makes of it.                   *)
(***************************************************************************)
Str(s) == [type |-> "string", chars |-> s]
Num(n) == [type |-> "number", n |-> n]
Bool(b) == [type |-> "boolean", b |-> b]
Null == [type |-> "null"]
Undefined == [type |-> "undefined"]
Arr(items) == [type |-> "array", items |-> items]
Obj(props) == [type |-> "object", props |-> props]

\* o has the property f; o.f, undefined when it has not
Has(o, f) == f \in DOMAIN o
Get(o, f) == IF Has(o, f) THEN o[f] ELSE Undefined

\* Array.isArray(v) and typeof v === "string"
IsArray(v) == v.type = "array"
IsString(v) == v.type = "string"

\* v.f for one of the property names the code reads off a season (title,
\* description, episodes): a property of an object; undefined on a string, a
\* number, a boolean or an array, which have no such property; a TypeError on
\* null and undefined
PropThrows(v) == v.type \in {"null", "undefined"}
Prop(v, f) == IF v.type = "object" THEN Get(v.props, f) ELSE Undefined

\* ToBoolean
Truthy(v) ==
    CASE v.type = "string"  -> v.chars # <<>>
      [] v.type = "number"  -> v.n # 0
      [] v.type = "boolean" -> v.b
      [] v.type \in {"null", "undefined"} -> FALSE
      [] v.type \in {"array", "object"} -> TRUE

\* the decimal digits of an integer
Digits(n) == LET s == ToString(n) IN [i \in 1..Len(s) |-> SubSeq(s, i, i)]

RECURSIVE ToStr(_)
\* Array.prototype.join(sep) on the array v: the elements as strings, null
\* and undefined among them as ""
arrayJoin(v, sep) ==
    join([i \in 1..Len(v.items) |->
             IF v.items[i].type \in {"null", "undefined"} THEN <<>>
             ELSE ToStr(v.items[i])], sep)

\* ToString, as a template literal `${v}` applies it
ToStr(v) ==
    CASE v.type = "string"    -> v.chars
      [] v.type = "number"    -> Digits(v.n)
      [] v.type = "boolean"   -> IF v.b THEN <<"t", "r", "u", "e">>
                                 ELSE <<"f", "a", "l", "s", "e">>
      [] v.type = "null"      -> <<"n", "u", "l", "l">>
      [] v.type = "undefined" -> <<"u", "n", "d", "e", "f", "i", "n", "e", "d">>
      [] v.type = "array"     -> arrayJoin(v, <<",">>)
      [] v.type = "object"    ->
             <<"[", "o", "b", "j", "e", "c", "t", " ", "O", "b", "j", "e", "c", "t", "]">>

\* what node.textContent = v leaves as text: null and undefined give ""
textContent(v) == IF v.type \in {"null", "undefined"} THEN <<>> ELSE ToStr(v)

\* ToNumber of what the sample gives as popularity; nan when it is NaN.  A
\* string, an array or an object is no popularity of the model.
ToNumber(v) ==
    CASE v.type = "number"    -> [nan |-> FALSE, v |-> v.n]
      [] v.type = "boolean"   -> [nan |-> FALSE, v |-> IF v.b THEN 1 ELSE 0]
      [] v.type = "null"      -> [nan |-> FALSE, v |-> 0]
      [] v.type = "undefined" -> [nan |-> TRUE, v |-> 0]

(***************************************************************************)
(* The Podcast model.                                                       *)
(***************************************************************************)
InvalidDate == [valid |-> FALSE, time |-> 0]

\* new Date(o.updated).  A date string says whether it parses ("iso") and the
\* time it parses to; undefined gives an Invalid Date, and so does a string
\* that does not parse.  A number, null or a boolean is a time counted from
\* 1970, which the clock of the model does not reach: no such value is an
\* updated of the model.
NewDate(o) ==
    LET v == Get(o, "updated")
    IN  CASE v.type = "string"    -> IF v.kind = "iso" THEN [valid |-> TRUE, time |-> v.ms]
                                     ELSE InvalidDate
          [] v.type = "undefined" -> InvalidDate

\* Podcast.constructor: the properties of o, updated as a Date, and seasons
\* replaced by [] unless it is an array
Podcast(o) ==
    [f \in DOMAIN o \cup {"updated", "seasons"} |->
        IF f = "updated" THEN NewDate(o)
        ELSE IF f = "seasons"
             THEN (IF IsArray(Get(o, "seasons")) THEN o.seasons ELSE Arr(<<>>))
        ELSE o[f]]

\* Podcast.getSeasonCount
getSeasonCount(p) == Len(p.seasons.items)

\* the wrong tier boundary: a full week still counted in days
getLastUpdatedHuman_Mut(p, t) ==
    IF ~p.updated.valid THEN "Updated NaN week ago"
    ELSE LET days == (t - p.updated.time) \div MsPerDay
             weeks == days \div 7
         IN  IF days <= 0 THEN "Updated today"
             ELSE IF days = 1 THEN "Updated yesterday"
             ELSE IF days <= 7 THEN "Updated " \o ToString(days) \o " days ago"
             ELSE "Updated " \o ToString(weeks) \o " week"
                      \o (IF weeks > 1 THEN "s" ELSE "") \o " ago"

\* Podcast.getLastUpdatedHuman, with Date.now() = t.  With an Invalid Date
\* every comparison with NaN is false and the last return is taken.
getLastUpdatedHuman(p, t) ==
    IF ~p.updated.valid THEN "Updated NaN week ago"
    ELSE LET days == (t - p.updated.time) \div MsPerDay
             weeks == days \div 7
         IN  IF days <= 0 THEN "Updated today"
             ELSE IF days = 1 THEN "Updated yesterday"
             ELSE IF days < 7 THEN "Updated " \o ToString(days) \o " days ago"
             ELSE "Updated " \o ToString(weeks) \o " week"
                      \o (IF weeks > 1 THEN "s" ELSE "") \o " ago"

\* Podcast.getFullDate: the locale's long date of the update time
getFullDate(p) ==
    IF p.updated.valid
    THEN [kind |-> "long-date", time |-> p.updated.time]
    ELSE [kind |-> "Invalid Date", time |-> 0]

(***************************************************************************)
(* escapeHtml                                                               *)
(***************************************************************************)
escapeChar(c) ==
    CASE c = "&"  -> <<"&", "a", "m", "p", ";">>
      [] c = "<"  -> <<"&", "l", "t", ";">>
      [] c = ">"  -> <<"&", "g", "t", ";">>
      [] c = "\"" -> <<"&", "q", "u", "o", "t", ";">>
      [] c = "'"  -> <<"&", "#", "3", "9", ";">>
      [] OTHER    -> <<c>>

RECURSIVE escapeString(_)
\* str.replace(/[&<>"']/g, ...): every character replaced by its escape, the
\* string taken by halves
escapeString(s) ==
    IF Len(s) = 0 THEN <<>>
    ELSE IF Len(s) = 1 THEN escapeChar(s[1])
    ELSE LET m == Len(s) \div 2
         IN  escapeString(SubSeq(s, 1, m)) \o escapeString(SubSeq(s, m + 1, Len(s)))

\* escapeHtml: a value that is not a string gives ""
escapeHtml(v) == IF IsString(v) THEN escapeString(v.chars) ELSE <<>>

(***************************************************************************)
(* The heap.  obj holds the Podcast instances, which no code changes once   *)
(* they are made; arr holds the arrays, each a sequence of references to    *)
(* objects.  A call returns the heap it leaves, the reference of the array  *)
(* it returns and whether it threw.                                         *)
(***************************************************************************)
Heap(objs, arrs) == [obj |-> objs, arr |-> arrs]

Returned(h, items) ==
    [heap |-> [h EXCEPT !.arr = Append(@, items)], ref |-> Len(h.arr) + 1, threw |-> FALSE]
Thrown(h) == [heap |-> h, ref |-> 0, threw |-> TRUE]

\* the object at index i of an array, and the objects it holds in order
At(h, list, i) == h.obj[h.arr[list][i]]
Items(h, list) == [i \in 1..Len(h.arr[list]) |-> h.obj[h.arr[list][i]]]

\* Array.prototype.slice(): a new array with the same items
slice(h, list) == Returned(h, h.arr[list])

\* p.genres.includes(genre), genre a string: an array has the string among
\* its elements, a string has it as a substring; any other value has no
\* includes, a TypeError
genresThrows(p) == Get(p, "genres").type \notin {"array", "string"}
genresIncludes(p, genre) ==
    IF IsArray(p.genres) THEN arrayIncludes(p.genres.items, Str(genre))
    ELSE includes(p.genres.chars, genre)

\* filterByGenre without the copy on the "all" path: the caller's own array
filterByGenre_Mut(h, list, genre) ==
    IF genre = <<>> \/ genre = AllGenres
    THEN [heap |-> h, ref |-> list, threw |-> FALSE]
    ELSE IF \E i \in 1..Len(h.arr[list]) : genresThrows(At(h, list, i)) THEN Thrown(h)
    ELSE Returned(h, SelectSeq(h.arr[list], LAMBDA r : genresIncludes(h.obj[r], genre)))

\* filterByGenre
filterByGenre(h, list, genre) ==
    IF genre = <<>> \/ genre = AllGenres THEN slice(h, list)
    ELSE IF \E i \in 1..Len(h.arr[list]) : genresThrows(At(h, list, i)) THEN Thrown(h)
    ELSE Returned(h, SelectSeq(h.arr[list], LAMBDA r : genresIncludes(h.obj[r], genre)))

\* the callback of applySearch on one record: does it throw, does it match.
\* Only a string has toLowerCase and only an array has join; the genres
\* are read when the title does not match.
titleMatches(p, query) == includes(toLowerCase(p.title.chars), query)
searchThrows(p, query) ==
    \/ ~IsString(Get(p, "title"))
    \/ ~titleMatches(p, query) /\ ~IsArray(Get(p, "genres"))
searchMatches(p, query) ==
    \/ titleMatches(p, query)
    \/ includes(toLowerCase(arrayJoin(p.genres, <<" ">>)), query)

\* applySearch matching each genre on its own instead of the joined string
applySearch_Mut(h, list, q) ==
    LET query == toLowerCase(trim(q))
    IN  IF query = <<>> THEN slice(h, list)
        ELSE IF \E i \in 1..Len(h.arr[list]) : searchThrows(At(h, list, i), query)
             THEN Thrown(h)
        ELSE Returned(h, SelectSeq(h.arr[list], LAMBDA r :
                 \/ titleMatches(h.obj[r], query)
                 \/ \E i \in 1..Len(h.obj[r].genres.items) :
                        includes(toLowerCase(ToStr(h.obj[r].genres.items[i])), query)))

\* applySearch
applySearch(h, list, q) ==
    LET query == toLowerCase(trim(q))
    IN  IF query = <<>> THEN slice(h, list)
        ELSE IF \E i \in 1..Len(h.arr[list]) : searchThrows(At(h, list, i), query)
             THEN Thrown(h)
        ELSE Returned(h, SelectSeq(h.arr[list], LAMBDA r : searchMatches(h.obj[r], query)))

(***************************************************************************)
(* sortList                                                                 *)
(***************************************************************************)
\* the comparator's value; nan when it is NaN (a subtraction with NaN or with
\* an Invalid Date)
compareFn(a, b, type) ==
    IF type = "Most Popular"
    THEN LET x == ToNumber(Get(a, "popularity"))
             y == ToNumber(Get(b, "popularity"))
         IN  IF x.nan \/ y.nan THEN [nan |-> TRUE, v |-> 0]
             ELSE [nan |-> FALSE, v |-> y.v - x.v]
    ELSE IF a.updated.valid /\ b.updated.valid
         THEN [nan |-> FALSE, v |-> b.updated.time - a.updated.time]
         ELSE [nan |-> TRUE, v |-> 0]

\* Array.prototype.sort reads a NaN from the comparator as +0
SortCompare(a, b, type) ==
    LET c == compareFn(a, b, type) IN IF c.nan THEN 0 ELSE c.v

\* a consistent comparator orders the items: its "equal" is transitive.  With
\* numbers it always is; with a NaN or an Invalid Date (equal to everything)
\* it is only when the others are all the same.
Consistent(ps, type) ==
    \A i, j, k \in 1..Len(ps) :
        (SortCompare(ps[i], ps[j], type) = 0 /\ SortCompare(ps[j], ps[k], type) = 0)
            => SortCompare(ps[i], ps[k], type) = 0

RECURSIVE insertFrom(_, _, _, _, _)
\* x goes right after the last of s[1..j] that does not sort after it
insertFrom(objs, s, j, x, type) ==
    IF j = 0 \/ SortCompare(objs[s[j]], objs[x], type) <= 0
    THEN SubSeq(s, 1, j) \o <<x>> \o SubSeq(s, j + 1, Len(s))
    ELSE insertFrom(objs, s, j - 1, x, type)

RECURSIVE stableSort(_, _, _)
\* the one order a stable sort gives under a consistent comparator
stableSort(objs, items, type) ==
    IF Len(items) = 0 THEN <<>>
    ELSE LET front == stableSort(objs, SubSeq(items, 1, Len(items) - 1), type)
         IN  insertFrom(objs, front, Len(front), items[Len(items)], type)

Reorderings(items) ==
    LET n == Len(items)
        bij == {f \in [1..n -> 1..n] : \A i, j \in 1..n : f[i] = f[j] => i = j}
    IN  {[i \in 1..n |-> items[f[i]]] : f \in bij}

\* Array.prototype.sort(comparefn) on the array list: stable; the order is
\* implementation-defined when the comparator is not consistent
sortedOrders(h, list, type) ==
    IF Consistent(Items(h, list), type)
    THEN {stableSort(h.obj, h.arr[list], type)}
    ELSE Reorderings(h.arr[list])

\* sortList sorting the caller's array in place, without the copy
sortList_Mut(h, list, type) ==
    {[heap |-> [h EXCEPT !.arr[list] = o], ref |-> list, threw |-> FALSE] :
        o \in sortedOrders(h, list, type)}

\* sortList: the results it may return.  "Newest" and the default are the same sort.
sortList(h, list, type) ==
    LET arr == slice(h, list)
    IN  {[heap |-> [arr.heap EXCEPT !.arr[arr.ref] = o], ref |-> arr.ref, threw |-> FALSE] :
            o \in sortedOrders(arr.heap, arr.ref, type)}

(***************************************************************************)
(* renderPodcasts                                                           *)
(***************************************************************************)
EmptyState == [kind |-> "empty-state", text |-> "No podcasts match your filters."]

\* `${p.title}`
templateTitle(p) == ToStr(Get(p, "title"))

\* one card of the grid, made at time t for the object r refers to; its click
\* and keydown listeners hold r
Card(h, r, t) ==
    LET p == h.obj[r]
    IN  [kind |-> "card",
         p |-> r,
         ariaLabel |-> <<templateTitle(p), getSeasonCount(p), "seasons",
                         getLastUpdatedHuman(p, t)>>,
         cover |-> ToStr(Get(p, "cover")),
         title |-> textContent(Get(p, "title")),
         meta |-> <<getSeasonCount(p), IF getSeasonCount(p) = 1 THEN "season" ELSE "seasons">>,
         tags |-> [i \in 1..Len(p.genres.items) |-> textContent(p.genres.items[i])],
         updated |-> getLastUpdatedHuman(p, t)]

\* renderPodcasts appending to what the grid already holds
renderPodcasts_Mut(h, old, list, t) ==
    IF Len(h.arr[list]) = 0 THEN [children |-> old \o <<EmptyState>>, threw |-> FALSE]
    ELSE [children |-> old \o [i \in 1..Len(h.arr[list]) |-> Card(h, h.arr[list][i], t)],
          threw |-> FALSE]

\* renderPodcasts(list) at time t, the grid holding old: the children it is
\* left with (grid.innerHTML = "" drops old).  A record whose genres is no
\* array throws in p.genres.forEach, before its card is appended: the cards
\* before it stay, and the rest are never made.
renderPodcasts(h, old, list, t) ==
    IF Len(h.arr[list]) = 0 THEN [children |-> <<EmptyState>>, threw |-> FALSE]
    ELSE LET bad == {i \in 1..Len(h.arr[list]) : ~IsArray(Get(At(h, list, i), "genres"))}
             stop == IF bad = {} THEN Len(h.arr[list]) + 1
                     ELSE CHOOSE i \in bad : \A j \in bad : i <= j
         IN  [children |-> [i \in 1..(stop - 1) |-> Card(h, h.arr[list][i], t)],
              threw |-> bad # {}]

(***************************************************************************)
(* The modal                                                                *)
(***************************************************************************)
\* one interpolation of a template assigned to innerHTML: the field it comes
\* from, the value, and the text that was written
Interp(field, raw, html) == [field |-> field, raw |-> raw, html |-> html]

\* the text of a value that is a string, "" for any other value
RawText(v) == IF IsString(v) THEN v.chars ELSE <<>>

\* s.description || ""
descriptionOr(s) ==
    IF Truthy(Prop(s, "description")) THEN Prop(s, "description") ELSE Str(<<>>)

\* one row of the season list
seasonHTML(s) ==
    <<Interp("season.title", RawText(Prop(s, "title")), escapeHtml(Prop(s, "title"))),
      Interp("season.description", RawText(descriptionOr(s)), escapeHtml(descriptionOr(s))),
      Interp("season.episodes", ToStr(Prop(s, "episodes")), ToStr(Prop(s, "episodes")))>>

RECURSIVE flatten(_)
flatten(ss) == IF Len(ss) = 0 THEN <<>> ELSE Head(ss) \o flatten(Tail(ss))

\* the template of openModal
modalHTML(p) ==
    <<Interp("title", RawText(Get(p, "title")), escapeHtml(Get(p, "title"))),
      Interp("cover", ToStr(Get(p, "cover")), ToStr(Get(p, "cover"))),
      Interp("description", RawText(Get(p, "description")), escapeHtml(Get(p, "description")))>>
    \o [i \in 1..Len(p.genres.items) |->
           Interp("genre", RawText(p.genres.items[i]), escapeHtml(p.genres.items[i]))]
    \o <<Interp("updated", getFullDate(p), getFullDate(p))>>
    \o flatten([i \in 1..Len(p.seasons.items) |-> seasonHTML(p.seasons.items[i])])

Overlay ==
    [shown |-> modalShown, aria |-> ariaHidden, inner |-> modalInner,
     listeners |-> keydownListeners, focus |-> focus, threw |-> FALSE]

FocusClose == [el |-> "close", i |-> 0]
FocusOther == [el |-> "other", i |-> 0]
FocusCard(i) == [el |-> "card", i |-> i]

\* addEventListener that registers the same function again
addEventListener_Mut(ls, fn) == Append(ls, fn)

\* EventTarget.addEventListener: a listener already registered is not added again
addEventListener(ls, fn) == IF arrayIncludes(ls, fn) THEN ls ELSE Append(ls, fn)

\* EventTarget.removeEventListener
removeEventListener(ls, fn) ==
    IF ~arrayIncludes(ls, fn) THEN ls
    ELSE LET k == CHOOSE i \in 1..Len(ls) : ls[i] = fn /\ \A j \in 1..(i - 1) : ls[j] # fn
         IN  SubSeq(ls, 1, k - 1) \o SubSeq(ls, k + 1, Len(ls))

\* showModal leaving aria-hidden as it was
showModal_Mut(ov) ==
    [ov EXCEPT !.shown = TRUE, !.focus = FocusClose,
               !.listeners = addEventListener(ov.listeners, "handleEscClose")]

\* showModal
showModal(ov) ==
    [ov EXCEPT !.shown = TRUE, !.aria = "false", !.focus = FocusClose,
               !.listeners = addEventListener(ov.listeners, "handleEscClose")]

\* hideModal
hideModal(ov) ==
    [ov EXCEPT !.shown = FALSE, !.aria = "true", !.inner = <<>>,
               !.listeners = removeEventListener(ov.listeners, "handleEscClose")]

\* openModal; p.genres.map on genres that is no array and s.title on a
\* season that is null or undefined are TypeErrors, thrown before innerHTML is
\* assigned
openModal(ov, p) ==
    IF \/ ~IsArray(Get(p, "genres"))
       \/ \E i \in 1..Len(p.seasons.items) : PropThrows(p.seasons.items[i])
    THEN [ov EXCEPT !.threw = TRUE]
    ELSE showModal([ov EXCEPT !.inner = modalHTML(p)])

\* handleEscClose, and the document's own keydown listener: the same body
handleEscClose(ov, key) == IF key = "Escape" THEN hideModal(ov) ELSE ov

(***************************************************************************)
(* populateGenres                                                           *)
(***************************************************************************)
\* Set.prototype.has for a string, a number, a boolean, null or undefined,
\* which are the same value when they are equal.  An array or an object is
\* the same value as itself only, and a value of the model does not say
\* which one it is: none is a member of the Set of the model.
setHas(seen, v) ==
    CASE v.type \in {"string", "number", "boolean", "null", "undefined"} ->
             arrayIncludes(seen, v)

RECURSIVE unique(_, _)
\* a Set's iteration order: each value at its first insertion
unique(vs, seen) ==
    IF Len(vs) = 0 THEN seen
    ELSE unique(Tail(vs), IF setHas(seen, Head(vs)) THEN seen ELSE Append(seen, Head(vs)))

\* ["All Genres", ...Array.from(set)]
genreOptions(ps) ==
    <<Str(AllGenres)>> \o unique(flatten([i \in 1..Len(ps) |-> ps[i].genres.items]), <<>>)

\* `<option value="${g}">${g}</option>`: g is written as it is, twice
optionHTML(g, field) == <<Interp(field, ToStr(g), ToStr(g)), Interp(field, ToStr(g), ToStr(g))>>

\* populateGenres(list): what it assigns to genreFilter.innerHTML.  A record
\* whose genres is no array throws in p.genres.forEach, before the assignment.
populateGenres(h, list) ==
    IF \E i \in 1..Len(h.arr[list]) : ~IsArray(Get(At(h, list, i), "genres"))
    THEN [html |-> <<>>, threw |-> TRUE]
    ELSE LET opts == genreOptions(Items(h, list))
         IN  [html |-> flatten([i \in 1..Len(opts) |->
                          optionHTML(opts[i], IF i = 1 THEN "literal" ELSE "genre")]),
              threw |-> FALSE]

\* the values of the options the dropdown holds
optionValues == {genreHTML[i].raw : i \in 1..Len(genreHTML)}

(***************************************************************************)
(* The dataset                                                              *)
(***************************************************************************)
\* an ISO date string "YYYY-MM-DD" of day n: new Date reads it as UTC midnight
Day(n) == [type |-> "string", kind |-> "iso", ms |-> n * MsPerDay]

\* daysAgoISO(n) called at time t: the UTC date of t less n days
daysAgoISO(n, t) == Day((t - n * MsPerDay) \div MsPerDay)

Str_Technology == <<"T", "e", "c", "h", "n", "o", "l", "o", "g", "y">>
Str_Business == <<"B", "u", "s", "i", "n", "e", "s", "s">>
Str_TrueCrime == <<"T", "r", "u", "e", " ", "C", "r", "i", "m", "e">>
Str_Mystery == <<"M", "y", "s", "t", "e", "r", "y">>
Str_Comedy == <<"C", "o", "m", "e", "d", "y">>
Str_Entertainment == <<"E", "n", "t", "e", "r", "t", "a", "i", "n", "m", "e", "n", "t">>
Str_Entrepreneurship == <<"E", "n", "t", "r", "e", "p", "r", "e", "n", "e", "u", "r", "s", "h", "i", "p">>
Str_Health == <<"H", "e", "a", "l", "t", "h">>
Str_Lifestyle == <<"L", "i", "f", "e", "s", "t", "y", "l", "e">>
Str_History == <<"H", "i", "s", "t", "o", "r", "y">>
Str_Education == <<"E", "d", "u", "c", "a", "t", "i", "o", "n">>
Str_Sports == <<"S", "p", "o", "r", "t", "s">>
Str_News == <<"N", "e", "w", "s">>
Str_Science == <<"S", "c", "i", "e", "n", "c", "e">>
Str_Nature == <<"N", "a", "t", "u", "r", "e">>

\* SAMPLE_PODCASTS[0]
Sample1 ==
    [id |-> Num(1),
     title |-> Str(<<"T", "e", "c", "h", " ", "T", "a", "l", "k", "s", " ", "D", "a", "i",
                     "l", "y">>),
     cover |->
         Str(<<"h", "t", "t", "p", "s", ":", "/", "/", "p", "i", "c", "s", "u", "m", ".",
               "p", "h", "o", "t", "o", "s", "/", "s", "e", "e", "d", "/", "t", "e", "c",
               "h", "1", "/", "6", "0", "0", "/", "4", "0", "0">>),
     description |->
         Str(<<"D", "e", "e", "p", " ", "d", "i", "v", "e", "s", " ", "i", "n", "t", "o",
               " ", "t", "e", "c", "h", "n", "o", "l", "o", "g", "y", " ", "t", "r", "e",
               "n", "d", "s", ",", " ", "A", "I", ",", " ", "a", "n", "d", " ", "d", "i",
               "g", "i", "t", "a", "l", " ", "t", "r", "a", "n", "s", "f", "o", "r", "m",
               "a", "t", "i", "o", "n", " ", "w", "i", "t", "h", " ", "e", "x", "p", "e",
               "r", "t", " ", "i", "n", "t", "e", "r", "v", "i", "e", "w", "s", " ", "a",
               "n", "d", " ", "c", "a", "s", "e", " ", "s", "t", "u", "d", "i", "e", "s",
               ".">>),
     genres |-> Arr(<<Str(Str_Technology), Str(Str_Business)>>),
     seasons |->
         Arr(<<Obj([title |-> Str(<<"S", "e", "a", "s", "o", "n", " ", "1", ":", " ", "G", "e",
                                "t", "t", "i", "n", "g", " ", "S", "t", "a", "r", "t", "e",
                                "d">>),
                description |->
                    Str(<<"I", "n", "t", "r", "o", "d", "u", "c", "t", "i", "o", "n", " ",
                          "t", "o", " ", "t", "h", "e", " ", "f", "u", "n", "d", "a", "m",
                          "e", "n", "t", "a", "l", "s">>),
                episodes |-> Num(12)]),
               Obj([title |-> Str(<<"S", "e", "a", "s", "o", "n", " ", "2", ":", " ", "A", "d",
                                "v", "a", "n", "c", "e", "d", " ", "T", "o", "p", "i", "c",
                                "s">>),
                description |->
                    Str(<<"D", "e", "e", "p", " ", "d", "i", "v", "e", "s", " ", "i", "n",
                          "t", "o", " ", "c", "o", "m", "p", "l", "e", "x", " ", "s", "u",
                          "b", "j", "e", "c", "t", "s">>),
                episodes |-> Num(15)]),
               Obj([title |-> Str(<<"S", "e", "a", "s", "o", "n", " ", "3", ":", " ", "I", "n",
                                "d", "u", "s", "t", "r", "y", " ", "I", "n", "s", "i", "g",
                                "h", "t", "s">>),
                description |->
                    Str(<<"E", "x", "p", "e", "r", "t", " ", "p", "e", "r", "s", "p", "e",
                          "c", "t", "i", "v", "e", "s", " ", "a", "n", "d", " ", "c", "a",
                          "s", "e", " ", "s", "t", "u", "d", "i", "e", "s">>),
                episodes |-> Num(18)]),
               Obj([title |-> Str(<<"S", "e", "a", "s", "o", "n", " ", "4", ":", " ", "F", "u",
                                "t", "u", "r", "e", " ", "T", "r", "e", "n", "d", "s">>),
                description |->
                    Str(<<"W", "h", "a", "t", "'", "s", " ", "c", "o", "m", "i", "n", "g",
                          " ", "n", "e", "x", "t", " ", "i", "n", " ", "t", "e", "c", "h">>),
                episodes |-> Num(20)])>>),
     updated |-> Day(0),
     popularity |-> Num(95)]

\* SAMPLE_PODCASTS[1], the script loaded at time t
Sample2(t) ==
    [id |-> Num(2),
     title |-> Str(<<"C", "r", "i", "m", "e", " ", "J", "u", "n", "k", "i", "e">>),
     cover |->
         Str(<<"h", "t", "t", "p", "s", ":", "/", "/", "p", "i", "c", "s", "u", "m", ".",
               "p", "h", "o", "t", "o", "s", "/", "s", "e", "e", "d", "/", "c", "r", "i",
               "m", "e", "2", "/", "6", "0", "0", "/", "4", "0", "0">>),
     description |->
         Str(<<"T", "r", "u", "e", " ", "c", "r", "i", "m", "e", " ", "s", "t", "o", "r",
               "i", "e", "s", ",", " ", "i", "n", "v", "e", "s", "t", "i", "g", "a", "t",
               "i", "o", "n", "s", ",", " ", "a", "n", "d", " ", "m", "y", "s", "t", "e",
               "r", "i", "e", "s", " ", "t", "h", "a", "t", " ", "k", "e", "e", "p", " ",
               "y", "o", "u", " ", "o", "n", " ", "t", "h", "e", " ", "e", "d", "g", "e",
               ".">>),
     genres |-> Arr(<<Str(Str_TrueCrime), Str(Str_Mystery)>>),
     seasons |->
         Arr(<<Obj([title |-> Str(<<"S", "e", "a", "s", "o", "n", " ", "1", ":", " ", "D", "a",
                                "r", "k", " ", "S", "t", "o", "r", "i", "e", "s">>),
                description |->
                    Str(<<"C", "h", "i", "l", "l", "i", "n", "g", " ", "c", "a", "s", "e",
                          "s", " ", "t", "h", "a", "t", " ", "s", "h", "o", "c", "k", "e",
                          "d", " ", "t", "h", "e", " ", "w", "o", "r", "l", "d">>),
                episodes |-> Num(20)]),
               Obj([title |-> Str(<<"S", "e", "a", "s", "o", "n", " ", "2", ":", " ", "C", "o",
                                "l", "d", " ", "C", "a", "s", "e", "s">>),
                description |->
                    Str(<<"U", "n", "s", "o", "l", "v", "e", "d", " ", "c", "r", "i", "m",
                          "e", "s", " ", "r", "e", "v", "i", "s", "i", "t", "e", "d">>),
                episodes |-> Num(18)])>>),
     updated |-> daysAgoISO(7, t),
     popularity |-> Num(88)]

\* SAMPLE_PODCASTS[2], the script loaded at time t
Sample3(t) ==
    [id |-> Num(3),
     title |-> Str(<<"C", "o", "m", "e", "d", "y", " ", "B", "a", "n", "g", " ", "B", "a",
                     "n", "g">>),
     cover |->
         Str(<<"h", "t", "t", "p", "s", ":", "/", "/", "p", "i", "c", "s", "u", "m", ".",
               "p", "h", "o", "t", "o", "s", "/", "s", "e", "e", "d", "/", "c", "o", "m",
               "e", "d", "y", "3", "/", "6", "0", "0", "/", "4", "0", "0">>),
     description |->
         Str(<<"I", "m", "p", "r", "o", "v", "i", "s", "e", "d", " ", "c", "o", "m", "e",
               "d", "y", " ", "a", "n", "d", " ", "i", "n", "t", "e", "r", "v", "i", "e",
               "w", "s", " ", "w", "i", "t", "h", " ", "a", " ", "r", "o", "t", "a", "t",
               "i", "n", "g", " ", "c", "a", "s", "t", " ", "o", "f", " ", "c", "h", "a",
               "r", "a", "c", "t", "e", "r", "s", ".">>),
     genres |-> Arr(<<Str(Str_Comedy), Str(Str_Entertainment)>>),
     seasons |->
         Arr(<<Obj([title |-> Str(<<"S", "e", "a", "s", "o", "n", " ", "1">>),
                description |->
                    Str(<<"S", "k", "e", "t", "c", "h", "e", "s", " ", "a", "n", "d", " ",
                          "b", "i", "t", "s">>),
                episodes |-> Num(22)])>>),
     updated |-> daysAgoISO(3, t),
     popularity |-> Num(82)]

\* SAMPLE_PODCASTS[3], the script loaded at time t
Sample4(t) ==
    [id |-> Num(4),
     title |-> Str(<<"H", "o", "w", " ", "I", " ", "B", "u", "i", "l", "t", " ", "T", "h",
                     "i", "s">>),
     cover |->
         Str(<<"h", "t", "t", "p", "s", ":", "/", "/", "p", "i", "c", "s", "u", "m", ".",
               "p", "h", "o", "t", "o", "s", "/", "s", "e", "e", "d", "/", "b", "i", "z",
               "4", "/", "6", "0", "0", "/", "4", "0", "0">>),
     description |->
         Str(<<"F", "o", "u", "n", "d", "e", "r", "s", " ", "t", "e", "l", "l", " ", "t",
               "h", "e", " ", "s", "t", "o", "r", "i", "e", "s", " ", "b", "e", "h", "i",
               "n", "d", " ", "t", "h", "e", " ", "m", "o", "v", "e", "m", "e", "n", "t",
               "s", " ", "t", "h", "e", "y", " ", "b", "u", "i", "l", "t", ".">>),
     genres |-> Arr(<<Str(Str_Business), Str(Str_Entrepreneurship)>>),
     seasons |->
         Arr(<<Obj([title |-> Str(<<"S", "e", "a", "s", "o", "n", " ", "1">>),
                description |->
                    Str(<<"O", "r", "i", "g", "i", "n", " ", "s", "t", "o", "r", "i", "e",
                          "s">>),
                episodes |-> Num(18)])>>),
     updated |-> daysAgoISO(5, t),
     popularity |-> Num(91)]

\* SAMPLE_PODCASTS[4], the script loaded at time t
Sample5(t) ==
    [id |-> Num(5),
     title |-> Str(<<"T", "h", "e", " ", "D", "a", "i", "l", "y", " ", "M", "e", "d", "i",
                     "t", "a", "t", "i", "o", "n">>),
     cover |->
         Str(<<"h", "t", "t", "p", "s", ":", "/", "/", "p", "i", "c", "s", "u", "m", ".",
               "p", "h", "o", "t", "o", "s", "/", "s", "e", "e", "d", "/", "m", "e", "d",
               "5", "/", "6", "0", "0", "/", "4", "0", "0">>),
     description |->
         Str(<<"M", "i", "n", "d", "f", "u", "l", "n", "e", "s", "s", " ", "p", "r", "a",
               "c", "t", "i", "c", "e", "s", " ", "a", "n", "d", " ", "t", "a", "l", "k",
               "s", " ", "f", "o", "r", " ", "e", "v", "e", "r", "y", "d", "a", "y", " ",
               "c", "a", "l", "m", ".">>),
     genres |-> Arr(<<Str(Str_Health), Str(Str_Lifestyle)>>),
     seasons |->
         Arr(<<Obj([title |-> Str(<<"S", "e", "a", "s", "o", "n", " ", "1">>),
                description |->
                    Str(<<"B", "r", "e", "a", "t", "h", "e", " ", "a", "n", "d", " ", "r",
                          "e", "l", "a", "x">>),
                episodes |-> Num(30)])>>),
     updated |-> daysAgoISO(1, t),
     popularity |-> Num(70)]

\* SAMPLE_PODCASTS[5], the script loaded at time t
Sample6(t) ==
    [id |-> Num(6),
     title |-> Str(<<"H", "a", "r", "d", "c", "o", "r", "e", " ", "H", "i", "s", "t", "o",
                     "r", "y">>),
     cover |->
         Str(<<"h", "t", "t", "p", "s", ":", "/", "/", "p", "i", "c", "s", "u", "m", ".",
               "p", "h", "o", "t", "o", "s", "/", "s", "e", "e", "d", "/", "h", "i", "s",
               "t", "6", "/", "6", "0", "0", "/", "4", "0", "0">>),
     description |->
         Str(<<"L", "o", "n", "g", "-", "f", "o", "r", "m", " ", "e", "x", "p", "l", "o",
               "r", "a", "t", "i", "o", "n", "s", " ", "o", "f", " ", "p", "i", "v", "o",
               "t", "a", "l", " ", "m", "o", "m", "e", "n", "t", "s", " ", "a", "n", "d",
               " ", "p", "e", "o", "p", "l", "e", ".">>),
     genres |-> Arr(<<Str(Str_History), Str(Str_Education)>>),
     seasons |->
         Arr(<<Obj([title |-> Str(<<"S", "e", "a", "s", "o", "n", " ", "1">>),
                description |->
                    Str(<<"A", "n", "c", "i", "e", "n", "t", " ", "w", "a", "r", "s">>),
                episodes |-> Num(10)])>>),
     updated |-> daysAgoISO(4, t),
     popularity |-> Num(99)]

\* SAMPLE_PODCASTS[6], the script loaded at time t
Sample7(t) ==
    [id |-> Num(7),
     title |-> Str(<<"T", "h", "e", " ", "S", "p", "o", "r", "t", "s", " ", "D", "e", "s",
                     "k">>),
     cover |->
         Str(<<"h", "t", "t", "p", "s", ":", "/", "/", "p", "i", "c", "s", "u", "m", ".",
               "p", "h", "o", "t", "o", "s", "/", "s", "e", "e", "d", "/", "s", "p", "o",
               "r", "t", "s", "7", "/", "6", "0", "0", "/", "4", "0", "0">>),
     description |->
         Str(<<"A", "n", "a", "l", "y", "s", "i", "s", " ", "a", "n", "d", " ", "i", "n",
               "t", "e", "r", "v", "i", "e", "w", "s", " ", "f", "r", "o", "m", " ", "a",
               "c", "r", "o", "s", "s", " ", "t", "h", "e", " ", "s", "p", "o", "r", "t",
               "s", " ", "w", "o", "r", "l", "d", ".">>),
     genres |-> Arr(<<Str(Str_Sports), Str(Str_News)>>),
     seasons |->
         Arr(<<Obj([title |-> Str(<<"S", "e", "a", "s", "o", "n", " ", "1">>),
                description |->
                    Str(<<"W", "e", "e", "k", "l", "y", " ", "r", "e", "c", "a", "p", "s">>),
                episodes |-> Num(24)])>>),
     updated |-> daysAgoISO(6, t),
     popularity |-> Num(76)]

\* SAMPLE_PODCASTS[7], the script loaded at time t
Sample8(t) ==
    [id |-> Num(8),
     title |-> Str(<<"C", "u", "r", "i", "o", "u", "s", " ", "M", "i", "n", "d", "s">>),
     cover |->
         Str(<<"h", "t", "t", "p", "s", ":", "/", "/", "p", "i", "c", "s", "u", "m", ".",
               "p", "h", "o", "t", "o", "s", "/", "s", "e", "e", "d", "/", "s", "c", "i",
               "8", "/", "6", "0", "0", "/", "4", "0", "0">>),
     description |->
         Str(<<"S", "c", "i", "e", "n", "c", "e", " ", "e", "x", "p", "l", "a", "i", "n",
               "e", "d", " ", "t", "h", "r", "o", "u", "g", "h", " ", "e", "n", "g", "a",
               "g", "i", "n", "g", " ", "s", "t", "o", "r", "i", "e", "s", " ", "a", "n",
               "d", " ", "e", "x", "p", "e", "r", "i", "m", "e", "n", "t", "s", ".">>),
     genres |-> Arr(<<Str(Str_Science), Str(Str_Nature)>>),
     seasons |->
         Arr(<<Obj([title |-> Str(<<"S", "e", "a", "s", "o", "n", " ", "1">>),
                description |->
                    Str(<<"E", "v", "e", "r", "y", "d", "a", "y", " ", "s", "c", "i", "e",
                          "n", "c", "e">>),
                episodes |-> Num(16)])>>),
     updated |-> daysAgoISO(8, t),
     popularity |-> Num(85)]

\* the raw objects of the literal SAMPLE_PODCASTS, the script loaded at time t
SampleRaws(t) ==
    <<Sample1, Sample2(t), Sample3(t), Sample4(t), Sample5(t), Sample6(t), Sample7(t),
      Sample8(t)>>

\* the time the page loads: 2025-01-28, just after midnight UTC
AppStart == 13 * MsPerDay + 1

(***************************************************************************)
(* Raw objects that the literal could hold in place of its own: one with   *)
(* markup in every free-text field, and records that are malformed.        *)
(***************************************************************************)
Str_Markup == <<"<", "i", ">", "&">>

MarkupRaw ==
    [id |-> Num(9), title |-> Str(<<"<", "b", ">", "C", "a", "f", "é">>),
     cover |-> Str(<<"x", ".", "p", "n", "g">>),
     description |-> Str(<<"<", "s", "c", "r", "i", "p", "t", ">", "\"", "'">>),
     genres |-> Arr(<<Str(Str_Markup)>>),
     seasons |-> Arr(<<Obj([title |-> Str(<<"<", "u", ">">>),
                           description |-> Str(<<"a", "&", "b">>),
                           episodes |-> Num(1)]),
                       Obj([title |-> Str(<<"S", "2">>), episodes |-> Num(2)])>>),
     updated |-> Day(6), popularity |-> Num(88)]

\* an object without one of its properties
Without(o, f) == [g \in DOMAIN o \ {f} |-> o[g]]

NoGenres == Without(Sample4(AppStart), "genres")
NoSeasons == Without(Sample2(AppStart), "seasons")
NoTitle == Without(Sample4(AppStart), "title")
BadDate ==
    [Sample4(AppStart) EXCEPT !.updated = [type |-> "string", kind |-> "garbage", ms |-> 0]]
BadSeasons == [Sample2(AppStart) EXCEPT !.seasons = Num(5)]

\* the dataset of the script, and datasets put in its place, by name
Datasets ==
    [sample |-> SampleRaws(AppStart),
     markup |-> <<MarkupRaw, Sample2(AppStart), Sample1>>,
     empty |-> <<>>]
MalformedDatasets ==
    [noGenres |-> <<Sample1, NoGenres, Sample2(AppStart)>>,
     noSeasons |-> <<Sample1, NoSeasons>>,
     noTitle |-> <<NoTitle, Sample2(AppStart)>>,
     badDate |-> <<Sample1, BadDate, Sample2(AppStart)>>,
     badSeasons |-> <<Sample1, BadSeasons>>]

\* the records that the pipeline functions are called on, on their own
FnRaws == <<Sample1, Sample2(AppStart), Sample4(AppStart), MarkupRaw>>

\* new Podcast({...}) for each raw object of the literal, in order
Construct(raws) == [i \in 1..Len(raws) |-> Podcast(raws[i])]

AllDatasets == Datasets @@ MalformedDatasets @@ [fn |-> FnRaws]
Instances == [n \in DOMAIN AllDatasets |-> Construct(AllDatasets[n])]

\* the Podcast instances made at 67-154: the objects of the heap, by reference
podcasts == Instances[dataset]

\* search texts: what applySearch is called with on its own, and what the user
\* may type in the search box
Queries ==
    {<<>>, <<"\r", " ", "T", "E", "C", "H", "\f">>, <<"e", " ", "M", "y">>,
     <<"C", "A", "F", "É">>, <<" ", "\t", "", " ">>}
Typed == {<<>>, <<"\r", " ", "T", "E", "C", "H", "\f">>, <<"C", "A", "F", "É">>}
SortOptions == {"Recently Updated", "Most Popular", "Newest"}
Keys == {"Escape", "Enter", "a"}

(***************************************************************************)
(* updateUI and init                                                        *)
(***************************************************************************)
\* the three calls of updateUI: the results they may end with
pipeline(h, list, genre, sortBy, q) ==
    LET f == filterByGenre(h, list, genre)
    IN  IF f.threw THEN {f}
        ELSE LET s == applySearch(f.heap, f.ref, q)
             IN  IF s.threw THEN {s} ELSE sortList(s.heap, s.ref, sortBy)

\* updateUI, with the values it reads from the three inputs.  A throw in the
\* pipeline ends the handler before renderPodcasts.
updateUI(genre, sortBy, q) ==
    \E res \in pipeline(Heap(podcasts, <<SAMPLE_PODCASTS>>), 1, genre, sortBy, q) :
        /\ SAMPLE_PODCASTS' = res.heap.arr[1]
        /\ IF res.threw
           THEN /\ grid' = grid
                /\ uncaught' = TRUE
                /\ focus' = focus
           ELSE LET r == renderPodcasts(res.heap, grid, res.ref, now)
                IN  /\ grid' = r.children
                    /\ uncaught' = (uncaught \/ r.threw)
                    /\ focus' = IF focus.el = "card" THEN FocusOther ELSE focus

\* init(), run once when the script has loaded.  A throw in populateGenres
\* ends it before the first render.
init ==
    /\ phase = "load"
    /\ phase' = "ready"
    /\ LET h == Heap(podcasts, <<SAMPLE_PODCASTS>>)
           pg == populateGenres(h, 1)
       IN  IF pg.threw
           THEN /\ uncaught' = TRUE
                /\ UNCHANGED <<SAMPLE_PODCASTS, genreHTML, genreValue, sortValue, grid>>
           ELSE /\ genreHTML' = pg.html
                /\ genreValue' = AllGenres
                /\ sortValue' = "Recently Updated"
                /\ LET arg == slice(h, 1)
                   IN  \E res \in sortList(arg.heap, arg.ref, "Recently Updated") :
                           LET r == renderPodcasts(res.heap, grid, res.ref, now)
                           IN  /\ SAMPLE_PODCASTS' = res.heap.arr[1]
                               /\ grid' = r.children
                               /\ uncaught' = r.threw
    /\ UNCHANGED <<dataset, now, searchValue, modalShown, ariaHidden, modalInner,
                   keydownListeners, focus, lastOpen, fnVars>>

\* genreFilter "change"
GenreChange(g) ==
    /\ phase = "ready"
    /\ g \in optionValues /\ g # genreValue
    /\ genreValue' = g
    /\ updateUI(g, sortValue, searchValue)
    /\ UNCHANGED <<dataset, now, phase, genreHTML, sortValue, searchValue, modalShown,
                   ariaHidden, modalInner, keydownListeners, lastOpen, fnVars>>

\* sortFilter "change"
SortChange(m) ==
    /\ phase = "ready"
    /\ m # sortValue
    /\ sortValue' = m
    /\ updateUI(genreValue, m, searchValue)
    /\ UNCHANGED <<dataset, now, phase, genreHTML, genreValue, searchValue, modalShown,
                   ariaHidden, modalInner, keydownListeners, lastOpen, fnVars>>

\* searchInput "input"
SearchInput(q) ==
    /\ phase = "ready"
    /\ q # searchValue
    /\ searchValue' = q
    /\ updateUI(genreValue, sortValue, q)
    /\ UNCHANGED <<dataset, now, phase, genreHTML, genreValue, sortValue, modalShown,
                   ariaHidden, modalInner, keydownListeners, lastOpen, fnVars>>

(***************************************************************************)
(* Modal events                                                             *)
(***************************************************************************)
SetOverlay(ov) ==
    /\ modalShown' = ov.shown
    /\ ariaHidden' = ov.aria
    /\ modalInner' = ov.inner
    /\ keydownListeners' = ov.listeners
    /\ focus' = ov.focus
    /\ uncaught' = (uncaught \/ ov.threw)

NoOpen == [some |-> FALSE, dismissed |-> FALSE]
Dismissed == [some |-> FALSE, dismissed |-> TRUE]

\* the history after an event that ends with the overlay ov: opened says that
\* the event called openModal on r, which left the overlay at
Opened(ov, opened, at, r) ==
    IF modalShown /\ ~ov.shown THEN Dismissed
    ELSE IF opened /\ ~at.threw
         THEN [some |-> TRUE, dismissed |-> FALSE, p |-> r, focus |-> at.focus]
         ELSE lastOpen

\* the modal's click listener closing on any target
modalClick_Mut(ov, target) == hideModal(ov)

\* the modal's click listener: only a click on the backdrop itself closes
modalClick(ov, target) == IF target = "modal" THEN hideModal(ov) ELSE ov

RECURSIVE dispatch(_, _, _)
\* the document's keydown listeners, in order; one removed meanwhile is skipped
dispatch(ov, ls, key) ==
    IF Len(ls) = 0 THEN ov
    ELSE dispatch(IF arrayIncludes(ov.listeners, Head(ls)) THEN handleEscClose(ov, key) ELSE ov,
                  Tail(ls), key)

\* a card's keydown listener
cardKeydown(ov, p, key) == IF key = "Enter" THEN openModal(ov, p) ELSE ov

\* a click on card i
CardClick(i) ==
    /\ phase = "ready"
    /\ i \in 1..Len(grid) /\ grid[i].kind = "card"
    /\ LET ov == openModal(Overlay, podcasts[grid[i].p])
       IN  SetOverlay(ov) /\ lastOpen' = Opened(ov, TRUE, ov, grid[i].p)
    /\ UNCHANGED <<dataset, SAMPLE_PODCASTS, now, phase, genreValue, genreHTML, sortValue,
                   searchValue, grid, fnVars>>

\* a key pressed with the focus where it is: the focused card's listener
\* first, then the document's
KeyDown(key) ==
    /\ phase = "ready"
    /\ LET onCard == focus.el = "card"
           atCard == IF onCard THEN cardKeydown(Overlay, podcasts[grid[focus.i].p], key)
                     ELSE Overlay
           ov == dispatch(atCard, atCard.listeners, key)
       IN  /\ SetOverlay(ov)
           /\ lastOpen' = Opened(ov, onCard /\ key = "Enter", atCard,
                                 IF onCard THEN grid[focus.i].p ELSE 0)
    /\ UNCHANGED <<dataset, SAMPLE_PODCASTS, now, phase, genreValue, genreHTML, sortValue,
                   searchValue, grid, fnVars>>

\* a click on the close button: its own listener, then the modal's
CloseClick ==
    /\ phase = "ready" /\ modalShown
    /\ LET ov == modalClick(hideModal(Overlay), "close")
       IN  SetOverlay(ov) /\ lastOpen' = Opened(ov, FALSE, ov, 0)
    /\ UNCHANGED <<dataset, SAMPLE_PODCASTS, now, phase, genreValue, genreHTML, sortValue,
                   searchValue, grid, fnVars>>

\* a click on the backdrop
BackdropClick ==
    /\ phase = "ready" /\ modalShown
    /\ LET ov == modalClick(Overlay, "modal")
       IN  SetOverlay(ov) /\ lastOpen' = Opened(ov, FALSE, ov, 0)
    /\ UNCHANGED <<dataset, SAMPLE_PODCASTS, now, phase, genreValue, genreHTML, sortValue,
                   searchValue, grid, fnVars>>

\* a click inside the modal's content
ContentClick ==
    /\ phase = "ready" /\ modalShown
    /\ LET ov == modalClick(Overlay, "content")
       IN  SetOverlay(ov) /\ lastOpen' = Opened(ov, FALSE, ov, 0)
    /\ UNCHANGED <<dataset, SAMPLE_PODCASTS, now, phase, genreValue, genreHTML, sortValue,
                   searchValue, grid, fnVars>>

FocusTargets ==
    {FocusOther} \cup {FocusCard(i) : i \in {j \in 1..Len(grid) : grid[j].kind = "card"}}
    \cup (IF modalShown THEN {FocusClose} ELSE {})

\* the user moves the focus (Tab)
MoveFocus(t) ==
    /\ phase = "ready"
    /\ t \in FocusTargets /\ t # focus
    /\ focus' = t
    /\ UNCHANGED <<dataset, SAMPLE_PODCASTS, now, phase, uncaught, genreValue, genreHTML,
                   sortValue, searchValue, grid, modalShown, ariaHidden, modalInner,
                   keydownListeners, lastOpen, fnVars>>

\* a day passes
Tick ==
    /\ phase = "ready"
    /\ now \div MsPerDay < MaxDays - 1
    /\ now' = now + MsPerDay
    /\ UNCHANGED <<dataset, SAMPLE_PODCASTS, phase, uncaught, genreValue, genreHTML,
                   sortValue, searchValue, grid, modalShown, ariaHidden, modalInner,
                   keydownListeners, focus, lastOpen, fnVars>>

\* the page as the markup gives it, with the script's bindings made
InitialDocument ==
    /\ now = AppStart
    /\ phase = "load"
    /\ uncaught = FALSE
    /\ genreValue = <<>>
    /\ genreHTML = <<>>
    /\ sortValue = ""
    /\ searchValue = <<>>
    /\ grid = <<>>
    /\ modalShown = FALSE
    /\ ariaHidden = "true"
    /\ modalInner = <<>>
    /\ keydownListeners = <<"documentKeydown">>
    /\ focus = FocusOther
    /\ lastOpen = NoOpen

FnIdle ==
    /\ fnOrig = <<>>
    /\ fnList = <<>>
    /\ fnOut = [op |-> "none"]

\* the literal evaluated: the instances, and the array that refers to them
Load(n) ==
    /\ dataset = n
    /\ SAMPLE_PODCASTS = [i \in 1..Len(AllDatasets[n]) |-> i]

Init ==
    /\ \E n \in DOMAIN Datasets : Load(n)
    /\ InitialDocument
    /\ FnIdle

InitMalformed ==
    /\ \E n \in DOMAIN MalformedDatasets : Load(n)
    /\ InitialDocument
    /\ FnIdle

Next ==
    \/ init
    \/ \E g \in optionValues : GenreChange(g)
    \/ \E m \in SortOptions : SortChange(m)
    \/ \E q \in Typed : SearchInput(q)
    \/ \E k \in Keys : KeyDown(k)
    \/ \E i \in 1..Len(grid) : CardClick(i)
    \/ CloseClick
    \/ BackdropClick
    \/ ContentClick
    \/ \E t \in FocusTargets : MoveFocus(t)
    \/ Tick

Spec == Init /\ [][Next]_vars
SpecMalformed == InitMalformed /\ [][Next]_vars

(***************************************************************************)
(* The pipeline functions and getLastUpdatedHuman on their own: a caller    *)
(* holds one array (reference 1 of a heap of one array) of references to    *)
(* the instances of FnRaws and calls a function on it.                      *)
(***************************************************************************)
FnLists == UNION {[1..n -> 1..Len(FnRaws)] : n \in 0..MaxLen}
FnGenres ==
    {<<>>, AllGenres, Str_Technology, Str_Business, Str_TrueCrime, Str_Markup,
     <<"b", "u", "s", "i", "n", "e", "s", "s">>}
FnSortTypes == SortOptions \cup {"", "A-Z"}
FnTimes == {d * MsPerDay + off : d \in 0..MaxDays, off \in {0, 1, MsPerDay - 1}}

InitFn ==
    /\ Load("fn")
    /\ InitialDocument
    /\ fnOrig \in FnLists
    /\ fnList = fnOrig
    /\ fnOut = [op |-> "none"]

\* what the caller sees of a call that returned res
Seen(op, arg, res) ==
    [op |-> op, arg |-> arg, threw |-> res.threw, alias |-> res.ref = 1,
     items |-> IF res.threw THEN <<>> ELSE res.heap.arr[res.ref]]

CallFilterByGenre(g) ==
    /\ LET res == filterByGenre(Heap(podcasts, <<fnList>>), 1, g)
       IN  fnList' = res.heap.arr[1] /\ fnOut' = Seen("filterByGenre", g, res)
    /\ UNCHANGED <<appVars, fnOrig>>

CallApplySearch(q) ==
    /\ LET res == applySearch(Heap(podcasts, <<fnList>>), 1, q)
       IN  fnList' = res.heap.arr[1] /\ fnOut' = Seen("applySearch", q, res)
    /\ UNCHANGED <<appVars, fnOrig>>

CallSortList(type) ==
    /\ \E res \in sortList(Heap(podcasts, <<fnList>>), 1, type) :
           fnList' = res.heap.arr[1] /\ fnOut' = Seen("sortList", type, res)
    /\ UNCHANGED <<appVars, fnOrig>>

CallGetLastUpdatedHuman(i, t) ==
    /\ i \in 1..Len(fnList)
    /\ fnOut' = [op |-> "getLastUpdatedHuman", updated |-> podcasts[fnList[i]].updated.time,
                 now |-> t, text |-> getLastUpdatedHuman(podcasts[fnList[i]], t)]
    /\ UNCHANGED <<appVars, fnOrig, fnList>>

NextFn ==
    \/ \E g \in FnGenres : CallFilterByGenre(g)
    \/ \E q \in Queries : CallApplySearch(q)
    \/ \E type \in FnSortTypes : CallSortList(type)

SpecFn == InitFn /\ [][NextFn]_vars

\* getLastUpdatedHuman on its own: one record of the sample dataset, read at
\* any of the times
InitHuman ==
    /\ Load("sample")
    /\ InitialDocument
    /\ \E r \in 1..Len(Datasets.sample) : fnOrig = <<r>>
    /\ fnList = fnOrig
    /\ fnOut = [op |-> "none"]

NextHuman == \E t \in FnTimes : CallGetLastUpdatedHuman(1, t)

SpecHuman == InitHuman /\ [][NextHuman]_vars

(***************************************************************************)
(* Properties                                                               *)
(***************************************************************************)
\* r is the subsequence of s at the indices idx, in the order of s
IsSubseqAt(r, s, idx) ==
    /\ Len(r) = Cardinality(idx)
    /\ \E f \in [1..Len(r) -> idx] :
           /\ \A a, b \in 1..Len(r) : a < b => f[a] < f[b]
           /\ \A k \in 1..Len(r) : r[k] = s[f[k]]

\* C1: filterByGenre returns the whole list in order when the genre is empty
\* or "All Genres", otherwise exactly the records whose genres contain it, in
\* their original relative order; the result is a new array and the input
\* array is left as it was.
C1_FilterByGenre ==
    fnOut.op = "filterByGenre" =>
        /\ ~fnOut.threw
        /\ ~fnOut.alias
        /\ fnList = fnOrig
        /\ IsSubseqAt(fnOut.items, fnOrig,
               IF fnOut.arg = <<>> \/ fnOut.arg = AllGenres THEN 1..Len(fnOrig)
               ELSE {i \in 1..Len(fnOrig) :
                        \E k \in 1..Len(podcasts[fnOrig[i]].genres.items) :
                            podcasts[fnOrig[i]].genres.items[k] = Str(fnOut.arg)})

\* two of three records kept, the first one dropped
C1_Witness ==
    /\ fnOut.op = "filterByGenre"
    /\ fnOut.arg = Str_Business
    /\ Len(fnOrig) = 3
    /\ podcasts[fnOrig[1]].id = Num(9)
    /\ Len(fnOut.items) = 2
    /\ podcasts[fnOut.items[1]].id = Num(4) /\ podcasts[fnOut.items[2]].id = Num(1)

\* C2: applySearch trims and lowercases the query; an empty query keeps every
\* record, otherwise exactly the records are kept, in order, whose lowercased
\* title contains the query or whose genres joined by single spaces and
\* lowercased contain it.
C2_ApplySearch ==
    fnOut.op = "applySearch" =>
        LET nq == toLowerCase(trim(fnOut.arg))
        IN  /\ ~fnOut.threw
            /\ IsSubseqAt(fnOut.items, fnOrig,
                   IF nq = <<>> THEN 1..Len(fnOrig)
                   ELSE {i \in 1..Len(fnOrig) :
                            \/ includes(toLowerCase(podcasts[fnOrig[i]].title.chars), nq)
                            \/ includes(toLowerCase(
                                   join([k \in 1..Len(podcasts[fnOrig[i]].genres.items) |->
                                            podcasts[fnOrig[i]].genres.items[k].chars],
                                        <<" ">>)), nq)})

\* a query that only matches across the boundary of two genres
C2_Witness ==
    /\ fnOut.op = "applySearch"
    /\ fnOut.arg = <<"e", " ", "M", "y">>
    /\ Len(fnOrig) = 3
    /\ Len(fnOut.items) = 1
    /\ podcasts[fnOut.items[1]].id = Num(2)

\* C3: sortList(list, "Most Popular") returns a new array that is a
\* permutation of the input with non-increasing popularity over every adjacent
\* pair, records of equal popularity in their input order; the input array
\* keeps its order.
C3_SortMostPopular ==
    (fnOut.op = "sortList" /\ fnOut.arg = "Most Popular") =>
        LET n == Len(fnOrig)
            pop(r) == podcasts[r].popularity.n
        IN  /\ ~fnOut.alias
            /\ fnList = fnOrig
            /\ Len(fnOut.items) = n
            /\ \A k \in 1..(n - 1) : pop(fnOut.items[k]) >= pop(fnOut.items[k + 1])
            /\ \E f \in [1..n -> 1..n] :
                   /\ \A a, b \in 1..n : f[a] = f[b] => a = b
                   /\ \A k \in 1..n : fnOut.items[k] = fnOrig[f[k]]
                   /\ \A a, b \in 1..n :
                          (a < b /\ pop(fnOut.items[a]) = pop(fnOut.items[b])) => f[a] < f[b]

\* a sort that moved records and kept a tie (popularity 88) in its input order
C3_Witness ==
    /\ fnOut.op = "sortList" /\ fnOut.arg = "Most Popular"
    /\ Len(fnOrig) = 3
    /\ podcasts[fnOrig[1]].id = Num(9) /\ podcasts[fnOrig[2]].id = Num(2) /\ podcasts[fnOrig[3]].id = Num(1)
    /\ podcasts[fnOut.items[1]].id = Num(1)
    /\ podcasts[fnOut.items[2]].id = Num(9)
    /\ podcasts[fnOut.items[3]].id = Num(2)

\* the values the clock takes
AppTimes == {AppStart + k * MsPerDay : k \in 0..(MaxDays - AppStart \div MsPerDay)}

\* the grid that shows the array items, rendered at time t
GridOf(h, items, t) ==
    IF Len(items) = 0 THEN <<EmptyState>>
    ELSE [i \in 1..Len(items) |-> Card(h, items[i], t)]

\* C4: once initialized, the grid is the render of sort(search(filter(dataset,
\* genre), search text), sort mode) for the current values of the three
\* inputs: one card per record in that order and nothing else, or only the
\* empty-state marker.
C4_GridReflectsInputs ==
    phase = "ready" =>
        LET f == filterByGenre(Heap(podcasts, <<SAMPLE_PODCASTS>>), 1, genreValue)
            s == applySearch(f.heap, f.ref, searchValue)
        IN  \E res \in sortList(s.heap, s.ref, sortValue) :
                \E t \in {u \in AppTimes : u <= now} :
                    grid = GridOf(res.heap, res.heap.arr[res.ref], t)

\* the sample dataset with all three inputs set: one card, for "Tech Talks Daily"
C4_Witness ==
    /\ phase = "ready"
    /\ genreValue = Str_Business
    /\ sortValue = "Most Popular"
    /\ searchValue = <<"\r", " ", "T", "E", "C", "H", "\f">>
    /\ Len(SAMPLE_PODCASTS) = 8
    /\ Len(grid) = 1 /\ grid[1].kind = "card" /\ podcasts[grid[1].p].id = Num(1)

\* the overlay closed with its content cleared; the overlay with its content
\* as it was; the state of the overlay (open or closed, and the attribute that
\* tells it to assistive technology) as it was
OverlayClosed == ~modalShown' /\ ariaHidden' = "true" /\ modalInner' = <<>>
OverlayUnchanged == UNCHANGED <<modalShown, ariaHidden, modalInner>>
OverlayStateUnchanged == UNCHANGED <<modalShown, ariaHidden>>

\* C5: with the overlay open, a click on the close control, a click on the
\* backdrop itself and an Escape key press each bring it to the closed state
\* with its content cleared; a click inside the content leaves it open with
\* its content unchanged; any key other than Escape leaves the state of the
\* overlay unchanged: it stays open.
C5_Dismissal ==
    [][modalShown =>
          /\ (CloseClick \/ BackdropClick \/ KeyDown("Escape")) => OverlayClosed
          /\ ContentClick => (modalShown' /\ OverlayUnchanged)
          /\ \A k \in Keys \ {"Escape"} :
                 KeyDown(k) => (modalShown' /\ OverlayStateUnchanged)]_vars

\* an overlay that was opened and has been dismissed
C5_Witness ==
    /\ lastOpen.dismissed
    /\ ~modalShown /\ ariaHidden = "true" /\ modalInner = <<>>

ClosedListeners == <<"documentKeydown">>

\* C6: hideModal after any number of openModal leaves the same closed state
\* whatever the record (not shown, aria-hidden "true", no content, no
\* handleEscClose listener left), and hideModal on a closed overlay changes
\* nothing.
C6_HideRoundTrip ==
    LET after == hideModal(Overlay)
    IN  /\ ~after.shown /\ after.aria = "true" /\ after.inner = <<>>
        /\ after.listeners = ClosedListeners
        /\ ~after.threw
        /\ ~modalShown => after = Overlay

\* closed again after an open, with the close button still focused, in the
\* sample dataset
C6_Witness ==
    /\ lastOpen.dismissed
    /\ ~modalShown
    /\ keydownListeners = ClosedListeners
    /\ focus = FocusClose
    /\ Len(SAMPLE_PODCASTS) = 8

FreeText == {"title", "description", "genre", "season.title", "season.description"}

Escaped(sink) ==
    \A i \in 1..Len(sink) :
        sink[i].field \in FreeText => sink[i].html = escapeString(sink[i].raw)

\* C7: every free-text field of a record (title, description, genre names,
\* season titles and descriptions) is HTML-escaped wherever it is written into
\* innerHTML, in the modal and in the genre dropdown.
C7_FreeTextEscaped == Escaped(modalInner) /\ Escaped(genreHTML)

WellFormed(p) ==
    /\ IsString(Get(p, "title")) /\ IsArray(Get(p, "genres"))
    /\ p.updated.valid

\* C8: with one malformed source record (no genres, no seasons, no title or
\* an unparseable date) construction, the pipeline and renderPodcasts complete
\* without aborting, the record's fields are defaulted (a season list, a valid
\* timestamp, non-null genres), and the grid holds a card for every
\* well-formed record.
C8_MalformedTolerated ==
    phase = "ready" =>
        /\ ~uncaught
        /\ \A i \in 1..Len(podcasts) :
               /\ IsArray(Get(podcasts[i], "seasons"))
               /\ Get(podcasts[i], "genres").type \notin {"null", "undefined"}
               /\ podcasts[i].updated.valid
        /\ (genreValue \in {<<>>, AllGenres} /\ searchValue = <<>>) =>
               \A i \in 1..Len(SAMPLE_PODCASTS) :
                   WellFormed(podcasts[SAMPLE_PODCASTS[i]]) =>
                       \E k \in 1..Len(grid) :
                           grid[k].kind = "card" /\ grid[k].p = SAMPLE_PODCASTS[i]

\* the whole days between the update and the reading of the clock
WholeDays(diff) ==
    CHOOSE d \in -(MaxDays + 2)..(MaxDays + 2) :
        d * MsPerDay <= diff /\ diff < (d + 1) * MsPerDay

\* C9: with d the whole days from the update to now, getLastUpdatedHuman gives
\* "Updated today" for d <= 0, "Updated yesterday" for d = 1, "Updated d days
\* ago" for 2..6, and from 7 on "Updated w week ago" for w = d div 7 = 1 and
\* "Updated w weeks ago" for w > 1.
C9_LastUpdatedTiers ==
    fnOut.op = "getLastUpdatedHuman" =>
        LET d == WholeDays(fnOut.now - fnOut.updated)
            w == d \div 7
        IN  fnOut.text =
                IF d <= 0 THEN "Updated today"
                ELSE IF d = 1 THEN "Updated yesterday"
                ELSE IF d <= 6 THEN "Updated " \o ToString(d) \o " days ago"
                ELSE IF w = 1 THEN "Updated 1 week ago"
                ELSE "Updated " \o ToString(w) \o " weeks ago"

\* exactly fifteen days after the update
C9_Witness ==
    /\ fnOut.op = "getLastUpdatedHuman"
    /\ fnOut.now - fnOut.updated = 15 * MsPerDay
    /\ fnOut.text = "Updated 2 weeks ago"

\* C10: the overlay is shown exactly when aria-hidden is "false"; while shown
\* its content is that of the record of the last activation and that open
\* moved the focus to the close button; while not shown its content is empty.
C10_OverlayReflectsLastOpen ==
    /\ modalShown <=> ariaHidden = "false"
    /\ modalShown =>
           /\ lastOpen.some
           /\ modalInner = modalHTML(podcasts[lastOpen.p])
           /\ lastOpen.focus = FocusClose
    /\ ~modalShown => modalInner = <<>>

\* open on "Tech Talks Daily", with the focus moved on to the card of another
\* record
C10_Witness ==
    /\ modalShown
    /\ lastOpen.some /\ podcasts[lastOpen.p].id = Num(1)
    /\ focus.el = "card" /\ podcasts[grid[focus.i].p].id = Num(2)

====
